---- MODULE Spec2Model ----
(***************************************************************************)
(* Employee service: request DTOs (sanitization and validation), the      *)
(* service's business rules, the repository over the employees table and  *)
(* the controller's mapping of outcomes to HTTP responses.                 *)
(*                                                                         *)
(* Text is a sequence of one-character strings, so that trim(),            *)
(* toLowerCase(), parseFloat() and the e-mail pattern are computed.        *)
(* A JavaScript value is a record [k, s, n]: k is its kind, s its text,    *)
(* n its number.  Numbers are counted in thousandths (1000 is 1.0); the    *)
(* DECIMAL(10,2) salary column keeps hundredths.  Error messages are       *)
(* sequences of words, so that String.includes is a search.                *)
(***************************************************************************)
EXTENDS Integers, Sequences, FiniteSets, TLC

VARIABLES
  employees,  \* the rows of the employees table
  nextId,     \* the next value of the SERIAL id column
  req,        \* per client: the request in flight and its position
  resp,       \* per client: the response the controller emitted
  started,    \* number of requests received so far
  last,       \* the client whose handler ran last
  raw,        \* DTO workbench: the raw input record
  phase,      \* DTO workbench: which DTO was built from raw
  dto,        \* DTO workbench: the constructed DTO
  verdict,    \* DTO workbench: the result of validate() (and isEmpty())
  mapIn,      \* mapper workbench: the argument handed to the mapper
  mapOut      \* mapper workbench: the mapper function called and what it returned

vars == <<employees, nextId, req, resp, started, last, raw, phase, dto, verdict, mapIn, mapOut>>
storeVars == <<employees, nextId, req, resp, started, last>>
dtoVars == <<raw, phase, dto, verdict>>
mapVars == <<mapIn, mapOut>>

----------------------------------------------------------------------------
(* JavaScript values *)

NoText == <<>>
Absent == [k |-> "absent", s |-> NoText, n |-> 0]   \* no such property
Undef == [k |-> "undef", s |-> NoText, n |-> 0]     \* property holding undefined
Null == [k |-> "null", s |-> NoText, n |-> 0]
NaN == [k |-> "nan", s |-> NoText, n |-> 0]
InvalidDate == [k |-> "baddate", s |-> NoText, n |-> 0]
Str(t) == [k |-> "str", s |-> t, n |-> 0]
Num(m) == [k |-> "num", s |-> NoText, n |-> m]
DateOf(m) == [k |-> "date", s |-> NoText, n |-> m]

Fields == <<"name", "email", "position", "department", "salary", "hireDate">>
FieldSet == {Fields[i] : i \in 1..Len(Fields)}

\* v === undefined: a missing property reads as undefined
IsUndefined(v) == v.k \in {"absent", "undef"}

\* JavaScript truthiness (ToBoolean)
Truthy(v) ==
  CASE v.k = "str" -> v.s # NoText
    [] v.k = "num" -> v.n # 0
    [] v.k \in {"date", "baddate"} -> TRUE
    [] OTHER -> FALSE

\* the global isNaN(v): ToNumber(v) is NaN
IsNaN(v) ==
  CASE v.k = "nan" -> TRUE
    [] v.k \in {"undef", "absent"} -> TRUE
    [] v.k = "baddate" -> TRUE
    [] OTHER -> FALSE

\* v <= 0 after ToNumber (null is 0; a comparison with NaN is false)
LeqZero(v) ==
  CASE v.k = "num" -> v.n <= 0
    [] v.k = "null" -> TRUE
    [] OTHER -> FALSE

----------------------------------------------------------------------------
(* String.prototype.trim, toLowerCase *)

IsWhitespace(c) == c \in {" ", "\t", "\n"}

RECURSIVE TrimStart(_)
TrimStart(t) ==
  IF t # <<>> /\ IsWhitespace(Head(t)) THEN TrimStart(Tail(t)) ELSE t

RECURSIVE TrimEnd(_)
TrimEnd(t) ==
  IF t # <<>> /\ IsWhitespace(t[Len(t)]) THEN TrimEnd(SubSeq(t, 1, Len(t) - 1)) ELSE t

Trim(t) == TrimEnd(TrimStart(t))

UpperChars == <<"A", "B", "C", "D", "E", "F", "G", "H", "I", "J", "K", "L", "M",
                "N", "O", "P", "Q", "R", "S", "T", "U", "V", "W", "X", "Y", "Z">>
LowerChars == <<"a", "b", "c", "d", "e", "f", "g", "h", "i", "j", "k", "l", "m",
                "n", "o", "p", "q", "r", "s", "t", "u", "v", "w", "x", "y", "z">>

LowerOf(c) ==
  IF \E i \in 1..Len(UpperChars) : UpperChars[i] = c
  THEN LowerChars[CHOOSE i \in 1..Len(UpperChars) : UpperChars[i] = c]
  ELSE c

ToLowerCase(t) == [i \in 1..Len(t) |-> LowerOf(t[i])]

----------------------------------------------------------------------------
(* parseFloat and new Date *)

Digits == <<"0", "1", "2", "3", "4", "5", "6", "7", "8", "9">>
IsDigit(c) == \E i \in 1..Len(Digits) : Digits[i] = c
DigitVal(c) == (CHOOSE i \in 1..Len(Digits) : Digits[i] = c) - 1

RECURSIVE TakeDigits(_)
TakeDigits(t) ==
  IF t # <<>> /\ IsDigit(Head(t)) THEN <<Head(t)>> \o TakeDigits(Tail(t)) ELSE <<>>

RECURSIVE IntOf(_)
IntOf(ds) ==
  IF ds = <<>> THEN 0 ELSE IntOf(SubSeq(ds, 1, Len(ds) - 1)) * 10 + DigitVal(ds[Len(ds)])

\* the first three fraction digits, in thousandths
Thousandths(ds) ==
  (IF Len(ds) >= 1 THEN DigitVal(ds[1]) * 100 ELSE 0)
  + (IF Len(ds) >= 2 THEN DigitVal(ds[2]) * 10 ELSE 0)
  + (IF Len(ds) >= 3 THEN DigitVal(ds[3]) ELSE 0)

\* parseFloat: leading whitespace, a sign, the longest decimal prefix
ParseFloat(t) ==
  LET u == TrimStart(t)
      signed == u # <<>> /\ Head(u) \in {"+", "-"}
      sign == IF u # <<>> /\ Head(u) = "-" THEN -1 ELSE 1
      body == IF signed THEN Tail(u) ELSE u
      ip == TakeDigits(body)
      rest == SubSeq(body, Len(ip) + 1, Len(body))
      fp == IF rest # <<>> /\ Head(rest) = "." THEN TakeDigits(Tail(rest)) ELSE <<>>
  IN IF ip = <<>> /\ fp = <<>>
     THEN NaN
     ELSE Num(sign * (IntOf(ip) * 1000 + Thousandths(fp)))

\* new Date(text) for the ISO form YYYY-MM-DD; any other text is an Invalid Date
NewDate(t) ==
  LET shape == /\ Len(t) = 10
               /\ t[5] = "-" /\ t[8] = "-"
               /\ \A i \in {1, 2, 3, 4, 6, 7, 9, 10} : IsDigit(t[i])
      y == IntOf(SubSeq(t, 1, 4))
      m == IntOf(SubSeq(t, 6, 7))
      d == IntOf(SubSeq(t, 9, 10))
  IN IF shape /\ m \in 1..12 /\ d \in 1..31
     THEN DateOf(y * 10000 + m * 100 + d)
     ELSE InvalidDate

----------------------------------------------------------------------------
(* Error messages, as sequences of words *)

MsgNameRequired == <<"Name", "is", "required">>
MsgEmailRequired == <<"Email", "is", "required">>
MsgInvalidEmail == <<"Invalid", "email", "format">>
MsgPositionRequired == <<"Position", "is", "required">>
MsgDepartmentRequired == <<"Department", "is", "required">>
MsgSalaryRequired == <<"Salary", "is", "required">>
MsgSalaryPositive == <<"Salary", "must", "be", "a", "positive", "number">>
MsgHireDateRequired == <<"Hire", "date", "is", "required">>
MsgInvalidHireDate == <<"Invalid", "hire", "date", "format">>
MsgNotFound == <<"Employee", "not", "found">>
MsgConflict == <<"Employee", "with", "this", "email", "already", "exists">>
MsgNoFields == <<"No", "fields", "to", "update">>
NoMsg == <<>>

\* the errors put one after the other with nothing but a blank between
RECURSIVE JoinBlank(_)
JoinBlank(errors) ==
  IF errors = <<>> THEN <<>> ELSE errors[1] \o JoinBlank(Tail(errors))

\* errors.join(', ')
RECURSIVE Join(_)
Join(errors) ==
  IF errors = <<>> THEN <<>>
  ELSE IF Len(errors) = 1 THEN errors[1]
  ELSE errors[1] \o <<",">> \o Join(Tail(errors))

\* message.includes(needle)
Includes(msg, needle) ==
  \E i \in 1..(Len(msg) - Len(needle) + 1) : SubSeq(msg, i, i + Len(needle) - 1) = needle

----------------------------------------------------------------------------
(* Request DTOs *)

\* /^[^\s@]+@[^\s@]+\.[^\s@]+$/
Plain(t) == t # <<>> /\ \A i \in 1..Len(t) : ~IsWhitespace(t[i]) /\ t[i] # "@"

isValidEmail(t) ==
  \E i \in 1..Len(t) : \E j \in (i + 1)..Len(t) :
    /\ t[i] = "@" /\ t[j] = "."
    /\ Plain(SubSeq(t, 1, i - 1))
    /\ Plain(SubSeq(t, i + 1, j - 1))
    /\ Plain(SubSeq(t, j + 1, Len(t)))

\* data.f?.trim()
OptTrim(v) == IF v.k = "str" THEN Str(Trim(v.s)) ELSE Undef
\* the email trimmed but left in the case it was given
OptTrimKeepCase(v) == IF v.k = "str" THEN Str(Trim(v.s)) ELSE Undef

\* data.f?.trim().toLowerCase()
OptTrimLower(v) == IF v.k = "str" THEN Str(ToLowerCase(Trim(v.s))) ELSE Undef
\* typeof v === 'string' ? parseFloat(v) : v
CoerceSalary(v) ==
  IF v.k = "str" THEN ParseFloat(v.s) ELSE IF v.k = "absent" THEN Undef ELSE v
\* new Date(v) of a value that is not undefined
CoerceDate(v) ==
  CASE v.k = "str" -> NewDate(v.s)
    [] v.k = "null" -> DateOf(19700101)
    [] v.k = "date" -> v
    [] OTHER -> InvalidDate

CreateEmployeeRequestDto(data) ==
  [name |-> OptTrim(data.name),
   email |-> OptTrimLower(data.email),
   position |-> OptTrim(data.position),
   department |-> OptTrim(data.department),
   salary |-> CoerceSalary(data.salary),
   hireDate |-> IF Truthy(data.hireDate) THEN CoerceDate(data.hireDate) ELSE Undef]

CreateSalaryErrors(d) ==
  IF ~Truthy(d.salary) THEN <<MsgSalaryRequired>>
  ELSE IF IsNaN(d.salary) \/ LeqZero(d.salary) THEN <<MsgSalaryPositive>>
  ELSE <<>>

\* validation that stops at the first failing field
CreateValidateErrorsFirstOnly(d) ==
  IF ~Truthy(d.name) THEN <<MsgNameRequired>>
  ELSE IF ~Truthy(d.email) THEN <<MsgEmailRequired>>
  ELSE IF ~isValidEmail(d.email.s) THEN <<MsgInvalidEmail>>
  ELSE IF ~Truthy(d.position) THEN <<MsgPositionRequired>>
  ELSE IF ~Truthy(d.department) THEN <<MsgDepartmentRequired>>
  ELSE IF CreateSalaryErrors(d) # <<>> THEN CreateSalaryErrors(d)
  ELSE IF ~Truthy(d.hireDate) THEN <<MsgHireDateRequired>>
  ELSE IF d.hireDate.k = "baddate" THEN <<MsgInvalidHireDate>>
  ELSE <<>>

CreateValidateErrors(d) ==
  (IF ~Truthy(d.name) THEN <<MsgNameRequired>> ELSE <<>>)
  \o (IF ~Truthy(d.email) THEN <<MsgEmailRequired>>
      ELSE IF ~isValidEmail(d.email.s) THEN <<MsgInvalidEmail>> ELSE <<>>)
  \o (IF ~Truthy(d.position) THEN <<MsgPositionRequired>> ELSE <<>>)
  \o (IF ~Truthy(d.department) THEN <<MsgDepartmentRequired>> ELSE <<>>)
  \o CreateSalaryErrors(d)
  \o (IF ~Truthy(d.hireDate) THEN <<MsgHireDateRequired>>
      ELSE IF d.hireDate.k = "baddate" THEN <<MsgInvalidHireDate>> ELSE <<>>)

CreateValidate(d) ==
  LET errors == CreateValidateErrors(d)
  IN [isValid |-> (Len(errors) = 0), errors |-> errors]

UpdateEmployeeRequestDto(data) ==
  [name |-> IF ~IsUndefined(data.name) THEN OptTrim(data.name) ELSE Absent,
   email |-> IF ~IsUndefined(data.email) THEN OptTrimLower(data.email) ELSE Absent,
   position |-> IF ~IsUndefined(data.position) THEN OptTrim(data.position) ELSE Absent,
   department |-> IF ~IsUndefined(data.department) THEN OptTrim(data.department) ELSE Absent,
   salary |-> IF ~IsUndefined(data.salary) THEN CoerceSalary(data.salary) ELSE Absent,
   hireDate |-> IF ~IsUndefined(data.hireDate) THEN CoerceDate(data.hireDate) ELSE Absent]

UpdateValidateErrors(d) ==
  (IF ~IsUndefined(d.email) /\ Truthy(d.email) /\ ~isValidEmail(d.email.s)
   THEN <<MsgInvalidEmail>> ELSE <<>>)
  \o (IF ~IsUndefined(d.salary) /\ (IsNaN(d.salary) \/ LeqZero(d.salary))
      THEN <<MsgSalaryPositive>> ELSE <<>>)
  \o (IF ~IsUndefined(d.hireDate) /\ d.hireDate.k = "baddate"
      THEN <<MsgInvalidHireDate>> ELSE <<>>)

UpdateValidate(d) ==
  LET errors == UpdateValidateErrors(d)
  IN [isValid |-> (Len(errors) = 0), errors |-> errors]

\* The JavaScript UpdateEmployeeRequestDto kept beside the TypeScript one:
\* salary and hireDate are stored as they came, and validate() tests the
\* email whenever it is not undefined.

\* a decimal literal: an optional sign, digits, an optional fraction
IsDecimalLiteral(t) ==
  LET body == IF t # <<>> /\ Head(t) \in {"+", "-"} THEN Tail(t) ELSE t
      ip == TakeDigits(body)
      rest == SubSeq(body, Len(ip) + 1, Len(body))
      fp == IF rest # <<>> /\ Head(rest) = "." THEN TakeDigits(Tail(rest)) ELSE <<>>
  IN /\ ip \o fp # <<>>
     /\ Len(body) = Len(ip) + (IF rest # <<>> /\ Head(rest) = "." THEN 1 + Len(fp) ELSE 0)

\* ToNumber, as isNaN(v) and v <= 0 apply it: the whole trimmed text must be
\* a number, the empty text and null are 0
ToNumber(v) ==
  CASE v.k = "str" ->
         IF Trim(v.s) = <<>> THEN Num(0)
         ELSE IF IsDecimalLiteral(Trim(v.s)) THEN ParseFloat(Trim(v.s))
         ELSE NaN
    [] v.k = "null" -> Num(0)
    [] v.k = "num" -> v
    [] OTHER -> NaN

\* Date.parse(v): the text of v parsed as a date
DateParse(v) == IF v.k = "str" THEN NewDate(v.s) ELSE InvalidDate

UpdateEmployeeRequestDtoJs(data) ==
  [name |-> IF ~IsUndefined(data.name) THEN OptTrim(data.name) ELSE Absent,
   email |-> IF ~IsUndefined(data.email) THEN OptTrimLower(data.email) ELSE Absent,
   position |-> IF ~IsUndefined(data.position) THEN OptTrim(data.position) ELSE Absent,
   department |-> IF ~IsUndefined(data.department) THEN OptTrim(data.department) ELSE Absent,
   salary |-> data.salary,
   hireDate |-> data.hireDate]

UpdateValidateErrorsJs(d) ==
  (IF ~IsUndefined(d.email) /\ ~isValidEmail(d.email.s)
   THEN <<MsgInvalidEmail>> ELSE <<>>)
  \o (IF ~IsUndefined(d.salary) /\ (IsNaN(ToNumber(d.salary)) \/ LeqZero(ToNumber(d.salary)))
      THEN <<MsgSalaryPositive>> ELSE <<>>)
  \o (IF ~IsUndefined(d.hireDate) /\ IsNaN(DateParse(d.hireDate))
      THEN <<MsgInvalidHireDate>> ELSE <<>>)

UpdateValidateJs(d) ==
  LET errors == UpdateValidateErrorsJs(d)
  IN [isValid |-> (Len(errors) = 0), errors |-> errors]

\* a DTO whose declared fields are all own properties is never empty
isEmptyDeclaredFields(d) == FALSE

\* Object.keys(this).length === 0.  A field declared without an initializer is
\* no own property until the constructor assigns it; an assignment of
\* undefined (from a null input) does create the property.
isEmpty(d) == \A f \in FieldSet : d[f].k = "absent"

----------------------------------------------------------------------------
(* Input pools *)

Txt_n == <<"n">>
Txt_m == <<"m">>
Txt_p == <<"p">>
Txt_d == <<"d">>
Txt_e == <<"e">>
Txt_sp == <<" ">>
Txt_n_padded == <<" ", "n", " ">>
Txt_abc == <<"a", "b", "c">>
Txt_email_a == <<"a", "@", "b", ".", "c">>
Txt_email_x == <<"x", "@", "b", ".", "c">>
Txt_email_A_padded == <<" ", "A", "@", "b", ".", "c", " ">>
Txt_email_AB == <<"A", "@", "B", ".", "C">>
Txt_email_nodot == <<"a", "@", "b">>
Txt_email_noat == <<"a", "b">>
Txt_email_inner_sp == <<"a", " ", "@", "b", ".", "c">>
Txt_date == <<"2", "0", "2", "4", "-", "0", "1", "-", "1", "5">>
Txt_nope == <<"n", "o", "p", "e">>
Txt_1_5 == <<"1", ".", "5">>
Txt_0 == <<"0">>
Txt_minus2 == <<"-", "2">>
Txt_12abc == <<"1", "2", "a", "b", "c">>

NamePool == {Absent, Null, Str(NoText), Str(Txt_sp), Str(Txt_n_padded)}
EmailPool == {Absent, Null, Str(NoText), Str(Txt_email_A_padded), Str(Txt_email_a),
              Str(Txt_email_noat), Str(Txt_email_nodot), Str(Txt_email_inner_sp)}
PositionPool == {Absent, Str(Txt_sp), Str(Txt_p)}
DepartmentPool == {Absent, Str(NoText), Str(Txt_d)}
SalaryPool == {Absent, Null, Num(0), Num(-1000), Num(4), Num(1000), Str(Txt_abc),
               Str(NoText), Str(Txt_1_5), Str(Txt_0), Str(Txt_minus2), Str(Txt_12abc)}
HireDatePool == {Absent, Null, Str(NoText), Str(Txt_date), Str(Txt_nope)}

RawRecords ==
  [name : NamePool, email : EmailPool, position : PositionPool,
   department : DepartmentPool, salary : SalaryPool, hireDate : HireDatePool]

NoData == [f \in FieldSet |-> Absent]
NoVerdict == [isValid |-> FALSE, errors |-> <<>>, isEmpty |-> FALSE, done |-> FALSE]

----------------------------------------------------------------------------
(* The employees table and the repository *)

MaxRequests == 3

Clients == {"c1", "c2"}
\* the ids requests name: the last of MaxRequests requests can address a row
\* that MaxRequests - 1 inserts made, and any id not yet handed out is missing
Ids == 1..(MaxRequests - 1)

NoRow ==
  [id |-> 0, name |-> NoText, email |-> NoText, position |-> NoText,
   department |-> NoText, salary |-> 0, hireDate |-> 0,
   createdAt |-> 0, updatedAt |-> 0]

\* The clock the timestamps are read from, at the resolution of the inserts:
\* it ticks with every row inserted, so createdAt follows the order of the ids
\* and writes between two inserts carry the same timestamp.
Now == nextId

\* DECIMAL(10,2): a value with more fraction digits is rounded to hundredths
ToDecimal2(m) == IF m >= 0 THEN (m + 5) \div 10 ELSE 0 - ((5 - m) \div 10)

\* the table without its unique index
EmailTakenUnchecked(rows, email, self) == FALSE

\* CREATE UNIQUE INDEX employees_email_key: another row already holds the email
EmailTaken(rows, email, self) == \E e \in rows : e.email = email /\ e.id # self

findById(rows, id) ==
  IF \E e \in rows : e.id = id THEN CHOOSE e \in rows : e.id = id ELSE NoRow

findByEmail(rows, email) ==
  IF \E e \in rows : e.email = email THEN CHOOSE e \in rows : e.email = email ELSE NoRow

\* rows in descending order of creation (ids are handed out in creation order)
RECURSIVE NewestFirst(_)
NewestFirst(rows) ==
  IF rows = {} THEN <<>>
  ELSE LET top == CHOOSE e \in rows : \A o \in rows : o.id <= e.id
       IN <<top>> \o NewestFirst(rows \ {top})

findAll(rows) == NewestFirst(rows)

\* the query without its where clause
findByDepartmentUnfiltered(rows, department) == NewestFirst(rows)

findByDepartment(rows, department) ==
  NewestFirst({e \in rows : e.department = department})

\* the row prisma.employee.create inserts for a request DTO
CreatedRow(id, d) ==
  [id |-> id, name |-> d.name.s, email |-> d.email.s, position |-> d.position.s,
   department |-> d.department.s, salary |-> ToDecimal2(d.salary.n),
   hireDate |-> d.hireDate.n, createdAt |-> Now, updatedAt |-> Now]

\* the names of the fields repository.update copies into updateData
UpdateDataFields(d) == {f \in FieldSet : ~IsUndefined(d[f])}

\* the row after prisma.employee.update applied updateData
UpdatedRow(e, d) ==
  LET has == UpdateDataFields(d)
  IN [id |-> e.id,
      name |-> IF "name" \in has THEN d.name.s ELSE e.name,
      email |-> IF "email" \in has THEN d.email.s ELSE e.email,
      position |-> IF "position" \in has THEN d.position.s ELSE e.position,
      department |-> IF "department" \in has THEN d.department.s ELSE e.department,
      salary |-> IF "salary" \in has THEN ToDecimal2(d.salary.n) ELSE e.salary,
      hireDate |-> IF "hireDate" \in has THEN d.hireDate.n ELSE e.hireDate,
      createdAt |-> e.createdAt,
      updatedAt |-> Now]

\* The JavaScript repository kept beside the TypeScript one copies a field
\* into updateData when its value is truthy; it is handed the JavaScript DTO,
\* whose salary and hireDate are the raw values.
UpdateDataFieldsJs(d) == {f \in FieldSet : Truthy(d[f])}

UpdatedRowJs(e, d) ==
  LET has == UpdateDataFieldsJs(d)
  IN [id |-> e.id,
      name |-> IF "name" \in has THEN d.name.s ELSE e.name,
      email |-> IF "email" \in has THEN d.email.s ELSE e.email,
      position |-> IF "position" \in has THEN d.position.s ELSE e.position,
      department |-> IF "department" \in has THEN d.department.s ELSE e.department,
      salary |-> IF "salary" \in has THEN ToDecimal2(ToNumber(d.salary).n) ELSE e.salary,
      hireDate |-> IF "hireDate" \in has THEN CoerceDate(d.hireDate).n ELSE e.hireDate,
      createdAt |-> e.createdAt,
      updatedAt |-> Now]

\* The text of a persistence error is the database client's and reaches the
\* controller unchanged: the bare cause, or the cause framed by the client as
\* a failed invocation ("Invalid ... invocation: <cause>").
UniqueFailed == <<"Unique", "constraint", "failed", "on", "the", "fields:", "(email)">>
RecordMissing ==
  <<"An", "operation", "failed", "because", "it", "depends", "on", "one", "or", "more",
    "records", "that", "were", "required", "but", "not", "found.">>
DriverMessages(cause) == {cause, <<"Invalid", "invocation:">> \o cause}

----------------------------------------------------------------------------
(* Response DTOs and the mapper *)

RECURSIVE IntToText(_)
IntToText(m) ==
  IF m < 10 THEN <<Digits[m + 1]>> ELSE IntToText(m \div 10) \o <<Digits[(m % 10) + 1]>>

\* Decimal.toString() of a value held in hundredths
DecimalToString(c) ==
  LET whole == IntToText(c \div 100)
      frac == c % 100
  IN IF frac = 0 THEN whole
     ELSE IF frac % 10 = 0 THEN whole \o <<".", Digits[(frac \div 10) + 1]>>
     ELSE whole \o <<".", Digits[(frac \div 10) + 1], Digits[(frac % 10) + 1]>>

EmployeeResponseDto(e) ==
  [name |-> e.name, email |-> e.email, position |-> e.position,
   department |-> e.department, salary |-> DecimalToString(e.salary),
   hireDate |-> e.hireDate, createdAt |-> e.createdAt, updatedAt |-> e.updatedAt]

EmployeeDetailResponseDto(e) ==
  [id |-> e.id, name |-> e.name, email |-> e.email, position |-> e.position,
   department |-> e.department, salary |-> DecimalToString(e.salary),
   hireDate |-> e.hireDate, createdAt |-> e.createdAt, updatedAt |-> e.updatedAt]

\* a list projection that copies the salary as well
EmployeeListResponseDtoWithSalary(e) ==
  [id |-> e.id, name |-> e.name, email |-> e.email, position |-> e.position,
   department |-> e.department, salary |-> DecimalToString(e.salary)]

EmployeeListResponseDto(e) ==
  [id |-> e.id, name |-> e.name, email |-> e.email, position |-> e.position,
   department |-> e.department]

\* What a caller can hand to the mapper: an employee, null or undefined, or
\* an array of these.
NullEntity == [k |-> "null", e |-> NoRow]
UndefEntity == [k |-> "undef", e |-> NoRow]
Entity(e) == [k |-> "object", e |-> e]
ArrayOf(items) == [isArray |-> TRUE, items |-> items, one |-> UndefEntity]
NotArray(x) == [isArray |-> FALSE, items |-> <<>>, one |-> x]
\* the rows a repository query returned
Rows(es) == ArrayOf([i \in 1..Len(es) |-> Entity(es[i])])

NullDto == [isNull |-> TRUE]
NotNull(d) == d # NullDto

\* if (!employee) return null
toResponseDto(x) == IF x.k # "object" THEN NullDto ELSE EmployeeResponseDto(x.e)
toDetailResponseDto(x) == IF x.k # "object" THEN NullDto ELSE EmployeeDetailResponseDto(x.e)
toListResponseDto(x) == IF x.k # "object" THEN NullDto ELSE EmployeeListResponseDto(x.e)

\* if (!Array.isArray(employees)) return []; map, then filter the nulls out
toResponseDtoArray(v) ==
  IF ~v.isArray THEN <<>>
  ELSE SelectSeq([i \in 1..Len(v.items) |-> toResponseDto(v.items[i])], NotNull)

toDetailResponseDtoArray(v) ==
  IF ~v.isArray THEN <<>>
  ELSE SelectSeq([i \in 1..Len(v.items) |-> toDetailResponseDto(v.items[i])], NotNull)

toListResponseDtoArray(v) ==
  IF ~v.isArray THEN <<>>
  ELSE SelectSeq([i \in 1..Len(v.items) |-> toListResponseDto(v.items[i])], NotNull)

\* The JavaScript mapper kept beside the TypeScript one: the same single
\* conversions, and array conversions that map without filtering.
toResponseDtoArrayJs(v) ==
  IF ~v.isArray THEN <<>> ELSE [i \in 1..Len(v.items) |-> toResponseDto(v.items[i])]

toDetailResponseDtoArrayJs(v) ==
  IF ~v.isArray THEN <<>> ELSE [i \in 1..Len(v.items) |-> toDetailResponseDto(v.items[i])]

toListResponseDtoArrayJs(v) ==
  IF ~v.isArray THEN <<>> ELSE [i \in 1..Len(v.items) |-> toListResponseDto(v.items[i])]

NoOutput == [impl |-> "none", fn |-> "none", out |-> <<>>]

----------------------------------------------------------------------------
(* The controller's responses *)

NoResp ==
  [status |-> 0, success |-> FALSE, kind |-> "none", data |-> <<>>,
   error |-> NoMsg, message |-> NoMsg]

\* every object answered as 201 Created
OkObjectAlwaysCreated(status, o) ==
  [status |-> 201, success |-> TRUE, kind |-> "object", data |-> <<o>>,
   error |-> NoMsg, message |-> NoMsg]

OkObject(status, o) ==
  [status |-> status, success |-> TRUE, kind |-> "object", data |-> <<o>>,
   error |-> NoMsg, message |-> NoMsg]

OkArray(os) ==
  [status |-> 200, success |-> TRUE, kind |-> "array", data |-> os,
   error |-> NoMsg, message |-> NoMsg]

OkMessage(m) ==
  [status |-> 200, success |-> TRUE, kind |-> "message", data |-> <<>>,
   error |-> NoMsg, message |-> m]

Fail(status, m) ==
  [status |-> status, success |-> FALSE, kind |-> "error", data |-> <<>>,
   error |-> m, message |-> NoMsg]

MsgDeleted == <<"Employee", "deleted", "successfully">>

CreateStatus(m) ==
  IF \/ Includes(m, <<"required">>)
     \/ Includes(m, <<"exists">>)
     \/ Includes(m, <<"Invalid">>)
     \/ Includes(m, <<"must", "be">>)
  THEN 400 ELSE 500

\* the update handler without its test for 'must be'
UpdateStatusNoMustBe(m) ==
  IF m = MsgNotFound THEN 404
  ELSE IF \/ Includes(m, <<"exists">>)
          \/ Includes(m, <<"Invalid">>)
          \/ Includes(m, <<"No", "fields">>)
  THEN 400 ELSE 500

UpdateStatus(m) ==
  IF m = MsgNotFound THEN 404
  ELSE IF \/ Includes(m, <<"exists">>)
          \/ Includes(m, <<"Invalid">>)
          \/ Includes(m, <<"must", "be">>)
          \/ Includes(m, <<"No", "fields">>)
  THEN 400 ELSE 500

GetByIdStatus(m) == IF m = MsgNotFound THEN 404 ELSE 500
\* every delete failure reported as a server error
DeleteStatusAlways500(m) == 500

DeleteStatus(m) == IF m = MsgNotFound THEN 404 ELSE 500
DepartmentStatus(m) == IF m = MsgDepartmentRequired THEN 400 ELSE 500

----------------------------------------------------------------------------
(* Requests *)

Body(name, email, position, department, salary, hireDate) ==
  [name |-> name, email |-> email, position |-> position,
   department |-> department, salary |-> salary, hireDate |-> hireDate]

CreateBodies ==
  {Body(Str(Txt_n_padded), Str(Txt_email_A_padded), Str(Txt_p), Str(Txt_d), Num(1000), Str(Txt_date)),
   Body(Str(Txt_n), Str(Txt_email_a), Str(Txt_p), Str(Txt_d), Str(Txt_1_5), Str(Txt_date)),
   Body(Str(Txt_n), Str(Txt_email_x), Str(Txt_p), Str(Txt_e), Num(4), Str(Txt_date)),
   Body(Absent, Str(Txt_email_a), Str(Txt_p), Str(Txt_d), Num(0), Str(Txt_date))}

UpdateBodies ==
  {NoData,
   [NoData EXCEPT !.email = Str(Txt_email_x)],
   [NoData EXCEPT !.email = Str(Txt_email_AB)],
   [NoData EXCEPT !.email = Str(Txt_email_x), !.salary = Num(-1000)],
   [NoData EXCEPT !.name = Null],
   [NoData EXCEPT !.name = Str(Txt_sp)],
   [NoData EXCEPT !.salary = Num(4)],
   [NoData EXCEPT !.name = Str(Txt_m), !.salary = Num(2000)]}

DepartmentParams == {Absent, Str(NoText), Str(Txt_d), Str(Txt_e)}

IdleReq ==
  [op |-> "none", id |-> 0, data |-> NoData, param |-> Absent, pc |-> "idle",
   emp |-> NoRow, calls |-> <<>>]

NewReq(op, id, data, pc, calls) ==
  [op |-> op, id |-> id, data |-> data, param |-> Absent, pc |-> pc,
   emp |-> NoRow, calls |-> calls]

InFlight(c) == req[c].pc \notin {"idle", "done"}
CanStart(c) == ~InFlight(c) /\ started < MaxRequests

----------------------------------------------------------------------------
(* createEmployee: POST /employees.  The request is received when its first *)
(* repository call runs; what the handler does between two repository calls *)
(* touches no shared state and belongs to the step of the earlier call.     *)

StartCreate(c, data) ==
  LET d == CreateEmployeeRequestDto(data)
      v == CreateValidate(d)
      found == findByEmail(employees, d.email.s)
  IN /\ CanStart(c)
     /\ started' = started + 1
     /\ UNCHANGED <<employees, nextId>>
     /\ IF ~v.isValid
        THEN /\ req' = [req EXCEPT ![c] = NewReq("create", 0, data, "done", <<>>)]
             /\ resp' = [resp EXCEPT ![c] = Fail(CreateStatus(Join(v.errors)), Join(v.errors))]
        ELSE IF found # NoRow
        THEN /\ req' = [req EXCEPT ![c] = NewReq("create", 0, data, "done", <<"findByEmail">>)]
             /\ resp' = [resp EXCEPT ![c] = Fail(CreateStatus(MsgConflict), MsgConflict)]
        ELSE /\ req' = [req EXCEPT ![c] = NewReq("create", 0, data, "create", <<"findByEmail">>)]
             /\ resp' = [resp EXCEPT ![c] = NoResp]

CreateInsert(c) ==
  LET d == CreateEmployeeRequestDto(req[c].data)
      row == CreatedRow(nextId, d)
  IN /\ req[c].pc = "create"
     /\ ~EmailTaken(employees, d.email.s, 0)
     /\ employees' = employees \cup {row}
     /\ nextId' = nextId + 1
     /\ req' = [req EXCEPT ![c].pc = "done", ![c].calls = @ \o <<"create">>]
     /\ resp' = [resp EXCEPT ![c] = OkObject(201, toDetailResponseDto(Entity(row)))]
     /\ UNCHANGED started

CreateInsertRejected(c) ==
  LET d == CreateEmployeeRequestDto(req[c].data)
  IN /\ req[c].pc = "create"
     /\ EmailTaken(employees, d.email.s, 0)
     /\ \E m \in DriverMessages(UniqueFailed) :
          resp' = [resp EXCEPT ![c] = Fail(CreateStatus(m), m)]
     /\ req' = [req EXCEPT ![c].pc = "done", ![c].calls = @ \o <<"create">>]
     /\ UNCHANGED <<employees, nextId, started>>

----------------------------------------------------------------------------
(* updateEmployee: PUT /employees/:id *)

\* the lookup made for any email, the employee's own included
NeedsEmailLookupAnyEmail(d, emp) == Truthy(d.email)

\* requestDto.email && requestDto.email !== employee.email
NeedsEmailLookup(d, emp) == Truthy(d.email) /\ d.email.s # emp.email

\* the checks with validation moved in front of the existence check
UpdateChecksValidateFirst(emp, d) ==
  IF ~UpdateValidate(d).isValid THEN Join(UpdateValidate(d).errors)
  ELSE IF emp = NoRow THEN MsgNotFound
  ELSE IF isEmpty(d) THEN MsgNoFields
  ELSE NoMsg

\* The checks updateEmployee makes before its email lookup, in their order:
\* the message of the first that fails, or none.  emp is what findById gave.
UpdateChecks(emp, d) ==
  IF emp = NoRow THEN MsgNotFound
  ELSE IF ~UpdateValidate(d).isValid THEN Join(UpdateValidate(d).errors)
  ELSE IF isEmpty(d) THEN MsgNoFields
  ELSE NoMsg

StartUpdate(c, id, data) ==
  LET emp == findById(employees, id)
      d == UpdateEmployeeRequestDto(data)
      failed == UpdateChecks(emp, d)
      r == NewReq("update", id, data, "done", <<"findById">>)
  IN /\ CanStart(c)
     /\ started' = started + 1
     /\ UNCHANGED <<employees, nextId>>
     /\ IF failed # NoMsg
        THEN /\ req' = [req EXCEPT ![c] = [r EXCEPT !.emp = emp]]
             /\ resp' = [resp EXCEPT ![c] = Fail(UpdateStatus(failed), failed)]
        ELSE /\ req' = [req EXCEPT ![c] =
                  [r EXCEPT !.emp = emp,
                            !.pc = IF NeedsEmailLookup(d, emp)
                                   THEN "findByEmail" ELSE "update"]]
             /\ resp' = [resp EXCEPT ![c] = NoResp]

UpdateFindByEmail(c) ==
  LET d == UpdateEmployeeRequestDto(req[c].data)
      found == findByEmail(employees, d.email.s)
  IN /\ req[c].pc = "findByEmail"
     /\ UNCHANGED <<employees, nextId, started>>
     /\ IF found # NoRow
        THEN /\ req' = [req EXCEPT ![c].pc = "done", ![c].calls = @ \o <<"findByEmail">>]
             /\ resp' = [resp EXCEPT ![c] = Fail(UpdateStatus(MsgConflict), MsgConflict)]
        ELSE /\ req' = [req EXCEPT ![c].pc = "update", ![c].calls = @ \o <<"findByEmail">>]
             /\ UNCHANGED resp

\* prisma.employee.update fails when no row has the id or the new email is taken
UpdateRejection(rows, id, d) ==
  IF findById(rows, id) = NoRow THEN RecordMissing
  ELSE IF "email" \in UpdateDataFields(d) /\ EmailTaken(rows, d.email.s, id) THEN UniqueFailed
  ELSE NoMsg

UpdateWrite(c) ==
  LET d == UpdateEmployeeRequestDto(req[c].data)
      old == findById(employees, req[c].id)
      new == UpdatedRow(old, d)
  IN /\ req[c].pc = "update"
     /\ UpdateRejection(employees, req[c].id, d) = NoMsg
     /\ employees' = (employees \ {old}) \cup {new}
     /\ req' = [req EXCEPT ![c].pc = "done", ![c].calls = @ \o <<"update">>]
     /\ resp' = [resp EXCEPT ![c] = OkObject(200, toDetailResponseDto(Entity(new)))]
     /\ UNCHANGED <<nextId, started>>

UpdateWriteRejected(c) ==
  LET d == UpdateEmployeeRequestDto(req[c].data)
      cause == UpdateRejection(employees, req[c].id, d)
  IN /\ req[c].pc = "update"
     /\ cause # NoMsg
     /\ \E m \in DriverMessages(cause) :
          resp' = [resp EXCEPT ![c] = Fail(UpdateStatus(m), m)]
     /\ req' = [req EXCEPT ![c].pc = "done", ![c].calls = @ \o <<"update">>]
     /\ UNCHANGED <<employees, nextId, started>>

----------------------------------------------------------------------------
(* deleteEmployee: DELETE /employees/:id *)

StartDelete(c, id) ==
  LET emp == findById(employees, id)
      r == NewReq("delete", id, NoData, "done", <<"findById">>)
  IN /\ CanStart(c)
     /\ started' = started + 1
     /\ UNCHANGED <<employees, nextId>>
     /\ IF emp = NoRow
        THEN /\ req' = [req EXCEPT ![c] = r]
             /\ resp' = [resp EXCEPT ![c] = Fail(DeleteStatus(MsgNotFound), MsgNotFound)]
        ELSE /\ req' = [req EXCEPT ![c] = [r EXCEPT !.emp = emp, !.pc = "delete"]]
             /\ resp' = [resp EXCEPT ![c] = NoResp]

\* a delete whose where clause matches every row
DeleteWriteEveryRow(c) ==
  /\ req[c].pc = "delete"
  /\ findById(employees, req[c].id) # NoRow
  /\ employees' = {}
  /\ req' = [req EXCEPT ![c].pc = "done", ![c].calls = @ \o <<"delete">>]
  /\ resp' = [resp EXCEPT ![c] = OkMessage(MsgDeleted)]
  /\ UNCHANGED <<nextId, started>>

DeleteWrite(c) ==
  LET old == findById(employees, req[c].id)
  IN /\ req[c].pc = "delete"
     /\ old # NoRow
     /\ employees' = employees \ {old}
     /\ req' = [req EXCEPT ![c].pc = "done", ![c].calls = @ \o <<"delete">>]
     /\ resp' = [resp EXCEPT ![c] = OkMessage(MsgDeleted)]
     /\ UNCHANGED <<nextId, started>>

DeleteWriteRejected(c) ==
  /\ req[c].pc = "delete"
  /\ findById(employees, req[c].id) = NoRow
  /\ \E m \in DriverMessages(RecordMissing) :
       resp' = [resp EXCEPT ![c] = Fail(DeleteStatus(m), m)]
  /\ req' = [req EXCEPT ![c].pc = "done", ![c].calls = @ \o <<"delete">>]
  /\ UNCHANGED <<employees, nextId, started>>

----------------------------------------------------------------------------
(* The read operations *)

\* a read that stamps the row it returns
GetEmployeeByIdTouching(c, id) ==
  LET emp == findById(employees, id)
  IN /\ CanStart(c)
     /\ started' = started + 1
     /\ employees' = IF emp = NoRow THEN employees
                     ELSE (employees \ {emp}) \cup {[emp EXCEPT !.updatedAt = Now]}
     /\ UNCHANGED nextId
     /\ req' = [req EXCEPT ![c] =
                  [NewReq("getById", id, NoData, "done", <<"findById">>) EXCEPT !.emp = emp]]
     /\ resp' = [resp EXCEPT ![c] =
                  IF emp = NoRow
                  THEN Fail(GetByIdStatus(MsgNotFound), MsgNotFound)
                  ELSE OkObject(200, toDetailResponseDto(Entity(emp)))]

GetEmployeeById(c, id) ==
  LET emp == findById(employees, id)
  IN /\ CanStart(c)
     /\ started' = started + 1
     /\ UNCHANGED <<employees, nextId>>
     /\ req' = [req EXCEPT ![c] =
                  [NewReq("getById", id, NoData, "done", <<"findById">>) EXCEPT !.emp = emp]]
     /\ resp' = [resp EXCEPT ![c] =
                  IF emp = NoRow
                  THEN Fail(GetByIdStatus(MsgNotFound), MsgNotFound)
                  ELSE OkObject(200, toDetailResponseDto(Entity(emp)))]

GetAllEmployees(c) ==
  /\ CanStart(c)
  /\ started' = started + 1
  /\ UNCHANGED <<employees, nextId>>
  /\ req' = [req EXCEPT ![c] = NewReq("getAll", 0, NoData, "done", <<"findAll">>)]
  /\ resp' = [resp EXCEPT ![c] = OkArray(toResponseDtoArray(Rows(findAll(employees))))]

GetEmployeesByDepartment(c, department) ==
  /\ CanStart(c)
  /\ started' = started + 1
  /\ UNCHANGED <<employees, nextId>>
  /\ IF ~Truthy(department)
     THEN /\ req' = [req EXCEPT ![c] =
                       [NewReq("byDepartment", 0, NoData, "done", <<>>) EXCEPT !.param = department]]
          /\ resp' = [resp EXCEPT ![c] =
                       Fail(DepartmentStatus(MsgDepartmentRequired), MsgDepartmentRequired)]
     ELSE /\ req' = [req EXCEPT ![c] =
                       [NewReq("byDepartment", 0, NoData, "done", <<"findByDepartment">>)
                          EXCEPT !.param = department]]
          /\ resp' = [resp EXCEPT ![c] =
                       OkArray(toListResponseDtoArray(Rows(findByDepartment(employees, department.s))))]

----------------------------------------------------------------------------
(* The service behind its controller, serving concurrent clients *)

InitStore ==
  /\ employees = {}
  /\ nextId = 1
  /\ req = [c \in Clients |-> IdleReq]
  /\ resp = [c \in Clients |-> NoResp]
  /\ started = 0
  /\ last = "c1"

InitWorkbench ==
  /\ raw = NoData
  /\ phase = "off"
  /\ dto = NoData
  /\ verdict = NoVerdict

InitMapperIdle ==
  /\ mapIn = NotArray(UndefEntity)
  /\ mapOut = NoOutput

Init == InitStore /\ InitWorkbench /\ InitMapperIdle

Next ==
  \/ \E c \in Clients : \E data \in CreateBodies : StartCreate(c, data) /\ last' = c /\ UNCHANGED <<dtoVars, mapVars>>
  \/ \E c \in Clients : CreateInsert(c) /\ last' = c /\ UNCHANGED <<dtoVars, mapVars>>
  \/ \E c \in Clients : CreateInsertRejected(c) /\ last' = c /\ UNCHANGED <<dtoVars, mapVars>>
  \/ \E c \in Clients : \E id \in Ids : \E data \in UpdateBodies :
       StartUpdate(c, id, data) /\ last' = c /\ UNCHANGED <<dtoVars, mapVars>>
  \/ \E c \in Clients : UpdateFindByEmail(c) /\ last' = c /\ UNCHANGED <<dtoVars, mapVars>>
  \/ \E c \in Clients : UpdateWrite(c) /\ last' = c /\ UNCHANGED <<dtoVars, mapVars>>
  \/ \E c \in Clients : UpdateWriteRejected(c) /\ last' = c /\ UNCHANGED <<dtoVars, mapVars>>
  \/ \E c \in Clients : \E id \in Ids : StartDelete(c, id) /\ last' = c /\ UNCHANGED <<dtoVars, mapVars>>
  \/ \E c \in Clients : DeleteWrite(c) /\ last' = c /\ UNCHANGED <<dtoVars, mapVars>>
  \/ \E c \in Clients : DeleteWriteRejected(c) /\ last' = c /\ UNCHANGED <<dtoVars, mapVars>>
  \/ \E c \in Clients : \E id \in Ids : GetEmployeeById(c, id) /\ last' = c /\ UNCHANGED <<dtoVars, mapVars>>
  \/ \E c \in Clients : GetAllEmployees(c) /\ last' = c /\ UNCHANGED <<dtoVars, mapVars>>
  \/ \E c \in Clients : \E department \in DepartmentParams :
       GetEmployeesByDepartment(c, department) /\ last' = c /\ UNCHANGED <<dtoVars, mapVars>>

Spec == Init /\ [][Next]_vars

----------------------------------------------------------------------------
(* The request DTOs on their own: every raw record is built and validated *)

StoredRows ==
  {[id |-> 1, name |-> Txt_n, email |-> Txt_email_a, position |-> Txt_p,
    department |-> Txt_d, salary |-> 100000, hireDate |-> 20240115,
    createdAt |-> 1, updatedAt |-> 1],
   [id |-> 2, name |-> Txt_m, email |-> Txt_email_x, position |-> Txt_p,
    department |-> Txt_e, salary |-> 150, hireDate |-> 20240115,
    createdAt |-> 2, updatedAt |-> 2]}

\* the id the workbench hands to repository.update
UpdatedId == 1

InitDto ==
  /\ employees = StoredRows
  /\ nextId = 3
  /\ req = [c \in Clients |-> IdleReq]
  /\ resp = [c \in Clients |-> NoResp]
  /\ started = 0
  /\ last = "c1"
  /\ raw \in RawRecords
  /\ phase = "input"
  /\ dto = NoData
  /\ verdict = NoVerdict
  /\ InitMapperIdle

ConstructCreate ==
  /\ phase = "input"
  /\ phase' = "create"
  /\ dto' = CreateEmployeeRequestDto(raw)
  /\ UNCHANGED <<raw, verdict>>

ConstructUpdate ==
  /\ phase = "input"
  /\ phase' = "update"
  /\ dto' = UpdateEmployeeRequestDto(raw)
  /\ UNCHANGED <<raw, verdict>>

\* new CreateEmployeeRequestDto(dto): the DTO built again from a DTO's fields
ReconstructCreate ==
  /\ phase = "create"
  /\ phase' = "createAgain"
  /\ dto' = CreateEmployeeRequestDto(dto)
  /\ UNCHANGED <<raw, verdict>>

\* new UpdateEmployeeRequestDto(dto)
ReconstructUpdate ==
  /\ phase = "update"
  /\ phase' = "updateAgain"
  /\ dto' = UpdateEmployeeRequestDto(dto)
  /\ UNCHANGED <<raw, verdict>>

ValidateCreate ==
  /\ phase \in {"create", "createAgain"}
  /\ verdict' = [isValid |-> CreateValidate(dto).isValid, errors |-> CreateValidate(dto).errors,
                 isEmpty |-> FALSE, done |-> TRUE]
  /\ UNCHANGED <<raw, phase, dto>>

ValidateUpdate ==
  /\ phase \in {"update", "updateAgain"}
  /\ verdict' = [isValid |-> UpdateValidate(dto).isValid, errors |-> UpdateValidate(dto).errors,
                 isEmpty |-> isEmpty(dto), done |-> TRUE]
  /\ UNCHANGED <<raw, phase, dto>>

ConstructUpdateJs ==
  /\ phase = "input"
  /\ phase' = "updateJs"
  /\ dto' = UpdateEmployeeRequestDtoJs(raw)
  /\ UNCHANGED <<raw, verdict>>

ValidateUpdateJs ==
  /\ phase = "updateJs"
  /\ verdict' = [isValid |-> UpdateValidateJs(dto).isValid,
                 errors |-> UpdateValidateJs(dto).errors,
                 isEmpty |-> isEmpty(dto), done |-> TRUE]
  /\ UNCHANGED <<raw, phase, dto>>

\* repository.update(id, requestDto), as the service calls it once the DTO
\* passed validate() and isEmpty()
RepositoryUpdate ==
  LET old == findById(employees, UpdatedId)
  IN /\ phase = "update"
     /\ verdict.done /\ verdict.isValid /\ ~verdict.isEmpty
     /\ UpdateRejection(employees, UpdatedId, dto) = NoMsg
     /\ phase' = "updated"
     /\ employees' = (employees \ {old}) \cup {UpdatedRow(old, dto)}
     /\ UNCHANGED <<nextId, req, resp, started, last, raw, dto, verdict>>

RepositoryUpdateJs ==
  LET old == findById(employees, UpdatedId)
  IN /\ phase = "updateJs"
     /\ verdict.done /\ verdict.isValid /\ ~verdict.isEmpty
     /\ ~("email" \in UpdateDataFieldsJs(dto) /\ EmailTaken(employees, dto.email.s, UpdatedId))
     /\ phase' = "updatedJs"
     /\ employees' = (employees \ {old}) \cup {UpdatedRowJs(old, dto)}
     /\ UNCHANGED <<nextId, req, resp, started, last, raw, dto, verdict>>

NextDto ==
  \/ ConstructCreate /\ UNCHANGED <<storeVars, mapVars>>
  \/ ConstructUpdate /\ UNCHANGED <<storeVars, mapVars>>
  \/ ConstructUpdateJs /\ UNCHANGED <<storeVars, mapVars>>
  \/ ReconstructCreate /\ UNCHANGED <<storeVars, mapVars>>
  \/ ReconstructUpdate /\ UNCHANGED <<storeVars, mapVars>>
  \/ ValidateCreate /\ UNCHANGED <<storeVars, mapVars>>
  \/ ValidateUpdate /\ UNCHANGED <<storeVars, mapVars>>
  \/ ValidateUpdateJs /\ UNCHANGED <<storeVars, mapVars>>
  \/ RepositoryUpdate /\ UNCHANGED mapVars
  \/ RepositoryUpdateJs /\ UNCHANGED mapVars

SpecDto == InitDto /\ [][NextDto]_vars

----------------------------------------------------------------------------
(* The mapper on its own: every input of the pool goes through every        *)
(* conversion of the TypeScript mapper and through the array conversions of *)
(* the JavaScript mapper.                                                   *)

MaxItems == 2

EntityPool ==
  {[id |-> 1, name |-> Txt_n, email |-> Txt_email_a, position |-> Txt_p,
    department |-> Txt_d, salary |-> 100000, hireDate |-> 20240115,
    createdAt |-> 1, updatedAt |-> 1],
   [id |-> 2, name |-> Txt_m, email |-> Txt_email_x, position |-> Txt_p,
    department |-> Txt_e, salary |-> 150, hireDate |-> 19700101,
    createdAt |-> 1, updatedAt |-> 2],
   [id |-> 3, name |-> NoText, email |-> Txt_email_x, position |-> Txt_p,
    department |-> Txt_d, salary |-> 1205, hireDate |-> 20240115,
    createdAt |-> 2, updatedAt |-> 3]}

MapperItems == {NullEntity} \cup {Entity(e) : e \in EntityPool}

MapperInputs ==
  {ArrayOf(items) : items \in UNION {[1..n -> MapperItems] : n \in 0..MaxItems}}
  \cup {NotArray(x) : x \in MapperItems \cup {UndefEntity}}

InitMapper ==
  /\ InitStore
  /\ InitWorkbench
  /\ mapIn \in MapperInputs
  /\ mapOut = NoOutput

Returned(impl, fn, out) ==
  /\ mapOut = NoOutput
  /\ mapOut' = [impl |-> impl, fn |-> fn, out |-> out]
  /\ UNCHANGED mapIn

CallToResponseDto ==
  ~mapIn.isArray /\ Returned("ts", "toResponseDto", <<toResponseDto(mapIn.one)>>)
CallToDetailResponseDto ==
  ~mapIn.isArray /\ Returned("ts", "toDetailResponseDto", <<toDetailResponseDto(mapIn.one)>>)
CallToListResponseDto ==
  ~mapIn.isArray /\ Returned("ts", "toListResponseDto", <<toListResponseDto(mapIn.one)>>)
CallToResponseDtoArray ==
  Returned("ts", "toResponseDtoArray", toResponseDtoArray(mapIn))
CallToDetailResponseDtoArray ==
  Returned("ts", "toDetailResponseDtoArray", toDetailResponseDtoArray(mapIn))
CallToListResponseDtoArray ==
  Returned("ts", "toListResponseDtoArray", toListResponseDtoArray(mapIn))
CallToResponseDtoArrayJs ==
  Returned("js", "toResponseDtoArray", toResponseDtoArrayJs(mapIn))
CallToDetailResponseDtoArrayJs ==
  Returned("js", "toDetailResponseDtoArray", toDetailResponseDtoArrayJs(mapIn))
CallToListResponseDtoArrayJs ==
  Returned("js", "toListResponseDtoArray", toListResponseDtoArrayJs(mapIn))

NextMapper ==
  \/ CallToResponseDto /\ UNCHANGED <<storeVars, dtoVars>>
  \/ CallToDetailResponseDto /\ UNCHANGED <<storeVars, dtoVars>>
  \/ CallToListResponseDto /\ UNCHANGED <<storeVars, dtoVars>>
  \/ CallToResponseDtoArray /\ UNCHANGED <<storeVars, dtoVars>>
  \/ CallToDetailResponseDtoArray /\ UNCHANGED <<storeVars, dtoVars>>
  \/ CallToListResponseDtoArray /\ UNCHANGED <<storeVars, dtoVars>>
  \/ CallToResponseDtoArrayJs /\ UNCHANGED <<storeVars, dtoVars>>
  \/ CallToDetailResponseDtoArrayJs /\ UNCHANGED <<storeVars, dtoVars>>
  \/ CallToListResponseDtoArrayJs /\ UNCHANGED <<storeVars, dtoVars>>

SpecMapper == InitMapper /\ [][NextMapper]_vars

----------------------------------------------------------------------------
(* Vocabulary of the properties *)

Elems(q) == {q[i] : i \in 1..Len(q)}

\* client c receives a new request in this step
Receives(c) == started' = started + 1 /\ last' = c

\* the normalized form of a raw email: trimmed and lowercased
Normalized(v) == ToLowerCase(Trim(v.s))

Done(c, op) == req[c].op = op /\ req[c].pc = "done"

----------------------------------------------------------------------------
(* C1: in every reachable state of the employee store no two live records  *)
(* have the same email.                                                     *)

C1_UniqueEmail ==
  \A e1 \in employees : \A e2 \in employees : e1 # e2 => e1.email # e2.email

\* two live records, after an insert or update was turned down for its email
C1_Witness ==
  /\ Cardinality(employees) = 2
  /\ \E c \in Clients : req[c].pc = "done" /\ Includes(resp[c].error, UniqueFailed)

----------------------------------------------------------------------------
(* C2 as stated: createEmployee with a payload whose email, trimmed and     *)
(* lowercased, is the email of a stored employee fails with Conflict and    *)
(* persists no row, also when the emails differ in case or whitespace.      *)

C2_Duplicate(c) ==
  /\ Receives(c)
  /\ req'[c].op = "create"
  /\ req'[c].data.email.k = "str"
  /\ \E e \in employees : e.email = Normalized(req'[c].data.email)

C2_Rejected(c) ==
  /\ resp'[c].error = MsgConflict
  /\ ~resp'[c].success
  /\ req'[c].pc = "done"
  /\ employees' = employees

C2_Original == [][\A c \in Clients : C2_Duplicate(c) => C2_Rejected(c)]_vars

(* C2 amended: the same for a payload that passes validation.               *)
C2_ConflictOnDuplicate ==
  [][\A c \in Clients :
       (C2_Duplicate(c) /\ CreateValidate(CreateEmployeeRequestDto(req'[c].data)).isValid)
         => C2_Rejected(c)]_vars

\* a create turned down as Conflict whose raw email is not the stored text
C2_Witness ==
  \E c \in Clients :
    /\ Done(c, "create")
    /\ resp[c].error = MsgConflict
    /\ \E e \in employees :
         e.email = Normalized(req[c].data.email) /\ e.email # req[c].data.email.s

----------------------------------------------------------------------------
(* C3: a createEmployee that passed the findByEmail check and whose insert  *)
(* meets a row with the same email persists nothing and fails with the      *)
(* storage layer's error, which is not Conflict and is answered with 500.   *)

C3_StorageRejectionIs500 ==
  [][\A c \in Clients :
       (/\ req[c].pc = "create"
        /\ req'[c].pc = "done"
        /\ EmailTaken(employees, Normalized(req[c].data.email), 0))
         => /\ employees' = employees
            /\ ~resp'[c].success
            /\ resp'[c].error # MsgConflict
            /\ resp'[c].status = 500]_vars

----------------------------------------------------------------------------
(* C4: a createEmployee whose payload passed validation and whose email is  *)
(* not stored persists exactly one new record, with the email trimmed and   *)
(* lowercased, name, position and department trimmed, and a salary above 0. *)

C4_PersistsSanitizedRecord ==
  [][\A c \in Clients :
       (/\ req[c].pc = "create"
        /\ req'[c].pc = "done"
        /\ ~EmailTaken(employees, Normalized(req[c].data.email), 0))
         => \E row \in employees' :
              /\ row \notin employees
              /\ employees' = employees \cup {row}
              /\ row.email = Normalized(req[c].data.email)
              /\ row.name = Trim(req[c].data.name.s)
              /\ row.position = Trim(req[c].data.position.s)
              /\ row.department = Trim(req[c].data.department.s)
              /\ row.salary > 0]_vars

----------------------------------------------------------------------------
(* C5: CreateEmployeeRequestDto.validate() collects every applicable error: *)
(* each required field that is missing or empty after sanitization has its  *)
(* message in the list, the messages come in the order name, email,         *)
(* position, department, salary, hireDate, and isValid holds exactly when   *)
(* the list is empty.                                                       *)

RequiredMsg(f) ==
  CASE f = "name" -> MsgNameRequired
    [] f = "email" -> MsgEmailRequired
    [] f = "position" -> MsgPositionRequired
    [] f = "department" -> MsgDepartmentRequired
    [] f = "salary" -> MsgSalaryRequired
    [] f = "hireDate" -> MsgHireDateRequired

\* the field of each message, as a position in the field order
FieldRank(m) ==
  CASE m = MsgNameRequired -> 1
    [] m \in {MsgEmailRequired, MsgInvalidEmail} -> 2
    [] m = MsgPositionRequired -> 3
    [] m = MsgDepartmentRequired -> 4
    [] m \in {MsgSalaryRequired, MsgSalaryPositive} -> 5
    [] m \in {MsgHireDateRequired, MsgInvalidHireDate} -> 6
    [] OTHER -> 0

MissingOrEmpty(f) ==
  \/ raw[f].k \in {"absent", "null"}
  \/ raw[f] = Str(NoText)
  \/ IsUndefined(dto[f])
  \/ dto[f] = Str(NoText)

C5_CollectsAllInOrder ==
  (phase = "create" /\ verdict.done) =>
    /\ \A f \in FieldSet : MissingOrEmpty(f) => RequiredMsg(f) \in Elems(verdict.errors)
    /\ \A i \in 1..Len(verdict.errors) : FieldRank(verdict.errors[i]) > 0
    /\ \A i \in 1..Len(verdict.errors) : \A j \in 1..Len(verdict.errors) :
         i < j => FieldRank(verdict.errors[i]) < FieldRank(verdict.errors[j])
    /\ verdict.isValid <=> (verdict.errors = <<>>)

\* all six fields missing or empty, some absent and some blank: six messages
C5_Witness ==
  /\ phase = "create" /\ verdict.done
  /\ raw.name = Str(Txt_sp) /\ raw.email = Absent /\ raw.salary = Absent
  /\ \A f \in FieldSet : MissingOrEmpty(f)
  /\ Len(verdict.errors) = 6

----------------------------------------------------------------------------
(* C6: validate() gives 'Salary is required' exactly when salary is absent  *)
(* from the input, and 'Salary must be a positive number' exactly when      *)
(* salary is present but not numeric or not greater than 0.                 *)

C6_SalaryMessages ==
  (phase = "create" /\ verdict.done) =>
    LET absent == raw.salary.k \in {"absent", "null"}
        numeric == dto.salary.k = "num"
    IN /\ (MsgSalaryRequired \in Elems(verdict.errors)) <=> absent
       /\ (MsgSalaryPositive \in Elems(verdict.errors))
            <=> (~absent /\ (~numeric \/ dto.salary.n <= 0))

----------------------------------------------------------------------------
(* C7: updateEmployee on an existing id with a body holding none of the six *)
(* fields fails with 'No fields to update', never calls repository.update,  *)
(* leaves the store unchanged, and the controller answers 400 with it.      *)

C7_NoFieldsRejected ==
  [][\A c \in Clients :
       (/\ Receives(c)
        /\ req'[c].op = "update"
        /\ findById(employees, req'[c].id) # NoRow
        /\ \A f \in FieldSet : req'[c].data[f].k = "absent")
         => /\ resp'[c] = Fail(400, MsgNoFields)
            /\ req'[c].pc = "done"
            /\ "update" \notin Elems(req'[c].calls)
            /\ employees' = employees]_vars

C7_Witness ==
  \E c \in Clients :
    /\ Done(c, "update")
    /\ req[c].emp # NoRow
    /\ req[c].data = NoData
    /\ resp[c].status = 400 /\ resp[c].error = MsgNoFields

----------------------------------------------------------------------------
(* C8 as stated: updateEmployee(id, body) whose normalized email is held by *)
(* a stored employee with a different id fails with Conflict and changes no *)
(* record; with the employee's own current email it is not rejected as a    *)
(* conflict and succeeds.                                                   *)

\* the request of client c ends in this step
Finishes(c) == req'[c].pc = "done" /\ last' = c

HeldByOther(rows, id, email) == \E e \in rows : e.id # id /\ e.email = email

C8_OtherHolderConflict(c) ==
  (/\ Finishes(c)
   /\ req'[c].op = "update"
   /\ req'[c].data.email.k = "str"
   /\ HeldByOther(employees, req'[c].id, Normalized(req'[c].data.email)))
    => /\ resp'[c].error = MsgConflict
       /\ employees' = employees

C8_OwnEmailAccepted(c) ==
  /\ (/\ req'[c].op = "update"
      /\ req'[c].emp # NoRow
      /\ req'[c].data.email.k = "str"
      /\ Normalized(req'[c].data.email) = req'[c].emp.email)
       => /\ resp'[c].error # MsgConflict
          /\ "findByEmail" \notin Elems(req'[c].calls)
  /\ (/\ req[c].pc = "update"
      /\ req'[c].pc = "done"
      /\ req[c].data.email.k = "str"
      /\ findById(employees, req[c].id) # NoRow
      /\ Normalized(req[c].data.email) = findById(employees, req[c].id).email)
       => /\ resp'[c].success
          /\ resp'[c].status = 200

C8_LooksUpOtherHolder(c) ==
  (/\ Receives(c)
   /\ req'[c].op = "update"
   /\ findById(employees, req'[c].id) # NoRow
   /\ UpdateValidate(UpdateEmployeeRequestDto(req'[c].data)).isValid
   /\ req'[c].data.email.k = "str"
   /\ HeldByOther(employees, req'[c].id, Normalized(req'[c].data.email)))
    => req'[c].pc = "findByEmail"

C8_ConflictAtLookup(c) ==
  (/\ req[c].pc = "findByEmail"
   /\ req'[c].pc # "findByEmail"
   /\ HeldByOther(employees, req[c].id, Normalized(req[c].data.email)))
    => /\ resp'[c] = Fail(400, MsgConflict)
       /\ req'[c].pc = "done"
       /\ employees' = employees

----------------------------------------------------------------------------
(* C9: updateEmployee(id, body) fails with Conflict only if, when its       *)
(* findByEmail lookup runs, a record with a different id holds the email;   *)
(* never because of the record with the same id.                            *)

C9_ConflictOnlyForOtherId ==
  [][\A c \in Clients :
       (/\ req[c].op = "update"
        /\ req[c].pc = "findByEmail"
        /\ resp'[c].error = MsgConflict)
         => HeldByOther(employees, req[c].id, Normalized(req[c].data.email))]_vars

----------------------------------------------------------------------------
(* C10: getEmployeeById(id) and deleteEmployee(id) on an id without a row   *)
(* fail with 'Employee not found', answered 404 with success false, and     *)
(* leave the store unchanged.                                               *)

C10_MissingIdIs404 ==
  [][\A c \in Clients :
       (/\ Receives(c)
        /\ req'[c].op \in {"getById", "delete"}
        /\ findById(employees, req'[c].id) = NoRow)
         => /\ resp'[c] = Fail(404, MsgNotFound)
            /\ ~resp'[c].success
            /\ req'[c].pc = "done"
            /\ employees' = employees
            /\ nextId' = nextId]_vars

\* a get and a delete of a missing id, both answered 404, with a row in the store
C10_Witness ==
  \E c1 \in Clients : \E c2 \in Clients :
    /\ Done(c1, "getById") /\ resp[c1].status = 404 /\ resp[c1].error = MsgNotFound
    /\ Done(c2, "delete") /\ resp[c2].status = 404 /\ resp[c2].error = MsgNotFound
    /\ employees # {}

----------------------------------------------------------------------------
(* C11: a successful GET /employees returns each employee in the list      *)
(* projection: every element carries exactly id, name, email, position and *)
(* department, and no element carries a salary field.                       *)

ListFields == {"id", "name", "email", "position", "department"}

C11_GetAllReturnsListProjection ==
  \A c \in Clients :
    (Done(c, "getAll") /\ resp[c].success) =>
      \A i \in 1..Len(resp[c].data) :
        /\ DOMAIN resp[c].data[i] = ListFields
        /\ "salary" \notin DOMAIN resp[c].data[i]

----------------------------------------------------------------------------
(* C12: for every employee entity the list projection has no salary field, *)
(* the public projection has no id field and the detail projection has     *)
(* both; each projection copies its fields from the entity unchanged (the  *)
(* salary as the decimal text that reads back as the entity's salary) and  *)
(* the entity is not modified.                                              *)

CopiedUnchanged(o, e) ==
  \A f \in DOMAIN o :
    IF f = "salary" THEN ParseFloat(o.salary) = Num(e.salary * 10) ELSE o[f] = e[f]

SingleConversions == {"toResponseDto", "toDetailResponseDto", "toListResponseDto"}

C12_ProjectionOfEntity ==
  (mapOut.fn \in SingleConversions /\ mapIn.one.k = "object") =>
    LET e == mapIn.one.e
        o == mapOut.out[1]
    IN /\ o # NullDto
       /\ CopiedUnchanged(o, e)
       /\ mapOut.fn = "toListResponseDto" => "salary" \notin DOMAIN o
       /\ mapOut.fn = "toResponseDto" => "id" \notin DOMAIN o
       /\ mapOut.fn = "toDetailResponseDto" => {"id", "salary"} \subseteq DOMAIN o

C12_Projections == []C12_ProjectionOfEntity /\ [][mapIn' = mapIn]_vars

\* the detail projection of an employee whose salary has a fraction
C12_Witness ==
  /\ mapOut.fn = "toDetailResponseDto"
  /\ mapIn.one.k = "object"
  /\ mapIn.one.e.salary = 1205
  /\ mapOut.out[1].salary = <<"1", "2", ".", "0", "5">>
  /\ mapOut.out[1].id = 3

----------------------------------------------------------------------------
(* C13: every error the service itself raises gets its intended status and *)
(* never 500: the joined create validation messages, alone or combined     *)
(* with the Conflict message, give 400 on create; the joined update        *)
(* validation messages, 'No fields to update' and the Conflict message, in *)
(* any combination, give 400 on update; 'Employee not found' gives 404 on  *)
(* get-by-id, update and delete.                                           *)

C13_ServiceErrorStatus ==
  /\ (phase = "create" /\ verdict.done) =>
        \A more \in {<<>>, <<MsgConflict>>} :
          (verdict.errors \o more # <<>>) =>
            CreateStatus(Join(verdict.errors \o more)) = 400
  /\ (phase = "update" /\ verdict.done) =>
        \A more \in {<<>>, <<MsgNoFields>>, <<MsgConflict>>, <<MsgNoFields, MsgConflict>>} :
          (verdict.errors \o more # <<>>) =>
            UpdateStatus(Join(verdict.errors \o more)) = 400
  /\ GetByIdStatus(MsgNotFound) = 404
  /\ UpdateStatus(MsgNotFound) = 404
  /\ DeleteStatus(MsgNotFound) = 404

\* an update body whose only fault is the salary: the one message that is
\* recognized by 'must be' alone
C13_Witness ==
  /\ phase = "update" /\ verdict.done
  /\ verdict.errors = <<MsgSalaryPositive>>
  /\ UpdateStatus(Join(verdict.errors)) = 400

----------------------------------------------------------------------------
(* C14: a failure that comes from the persistence layer is reported,       *)
(* whatever its message text, as HTTP 500 with success false and the       *)
(* underlying message unchanged.                                            *)

PersistenceMessages == DriverMessages(UniqueFailed) \cup DriverMessages(RecordMissing)

C14_PersistenceFailureIs500 ==
  \A c \in Clients :
    (req[c].pc = "done" /\ resp[c].error \in PersistenceMessages) =>
      resp[c] = Fail(500, resp[c].error)

----------------------------------------------------------------------------
(* C15: each of the three mapper array conversions returns, for a sequence *)
(* input, the single-entity conversion of every non-null element in input  *)
(* order with the nulls left out (no null element in the output, its       *)
(* length the number of non-null inputs) and an empty sequence for an      *)
(* input that is no sequence; each single-entity conversion returns null   *)
(* for a null or absent input.                                              *)

ArrayConversions ==
  {"toResponseDtoArray", "toDetailResponseDtoArray", "toListResponseDtoArray"}

SingleOf(fn, x) ==
  CASE fn = "toResponseDtoArray" -> toResponseDto(x)
    [] fn = "toDetailResponseDtoArray" -> toDetailResponseDto(x)
    [] fn = "toListResponseDtoArray" -> toListResponseDto(x)

RECURSIVE NonNullItems(_)
NonNullItems(items) ==
  IF items = <<>> THEN <<>>
  ELSE (IF Head(items).k = "object" THEN <<Head(items)>> ELSE <<>>)
       \o NonNullItems(Tail(items))

C15_MapperConversions ==
  /\ (mapOut.fn \in ArrayConversions /\ mapIn.isArray) =>
        LET kept == NonNullItems(mapIn.items)
        IN /\ mapOut.out = [i \in 1..Len(kept) |-> SingleOf(mapOut.fn, kept[i])]
           /\ \A i \in 1..Len(mapOut.out) : mapOut.out[i] # NullDto
           /\ Len(mapOut.out)
                = Cardinality({i \in 1..Len(mapIn.items) : mapIn.items[i].k = "object"})
  /\ (mapOut.fn \in ArrayConversions /\ ~mapIn.isArray) => mapOut.out = <<>>
  /\ (mapOut.fn \in SingleConversions /\ mapIn.one.k # "object") =>
        mapOut.out = <<NullDto>>

----------------------------------------------------------------------------
(* C16: UpdateEmployeeRequestDto.validate() never reports an error for an  *)
(* absent field: 'Invalid email format' only when email is present,        *)
(* non-empty after trimming and not format-valid; 'Salary must be a        *)
(* positive number' only when salary is present and not a number above 0;  *)
(* 'Invalid hire date format' only when hireDate is present and            *)
(* unparseable; with no field present isValid is true.                      *)

Present(f) == raw[f].k # "absent"

C16_UpdateValidatesPresentFields ==
  (phase \in {"update", "updateJs"} /\ verdict.done) =>
    LET errs == Elems(verdict.errors)
    IN /\ errs \subseteq {MsgInvalidEmail, MsgSalaryPositive, MsgInvalidHireDate}
       /\ MsgInvalidEmail \in errs =>
            /\ Present("email")
            /\ raw.email.k = "str"
            /\ Trim(raw.email.s) # NoText
            /\ ~isValidEmail(Normalized(raw.email))
       /\ MsgSalaryPositive \in errs =>
            /\ Present("salary")
            /\ ~(ToNumber(raw.salary).k = "num" /\ ToNumber(raw.salary).n > 0)
       /\ MsgInvalidHireDate \in errs =>
            /\ Present("hireDate")
            /\ ~(raw.hireDate.k = "str" /\ NewDate(raw.hireDate.s).k = "date")
       /\ (\A f \in FieldSet : ~Present(f)) => verdict.isValid

----------------------------------------------------------------------------
(* C17: UpdateEmployeeRequestDto.isEmpty() is true if and only if none of  *)
(* name, email, position, department, salary, hireDate was present in the  *)
(* input; a field absent in the input is absent on the constructed object, *)
(* and a field present with an empty value counts as present.               *)

C17_IsEmptyIffNothingPresent ==
  (phase \in {"update", "updateJs"} /\ verdict.done) =>
    /\ verdict.isEmpty <=> (\A f \in FieldSet : ~Present(f))
    /\ \A f \in FieldSet : ~Present(f) => dto[f].k = "absent"
    /\ \A f \in FieldSet :
         raw[f] \in {Null, Str(NoText), Str(Txt_sp)} =>
           (dto[f].k # "absent" /\ ~verdict.isEmpty)

\* an input whose only field is an empty name: not empty
C17_Witness ==
  /\ phase = "update" /\ verdict.done
  /\ raw = [NoData EXCEPT !.name = Str(NoText)]
  /\ dto.name = Str(NoText)
  /\ ~verdict.isEmpty

----------------------------------------------------------------------------
(* C18: a successful update replaces, on the record with the id, exactly   *)
(* the fields present in the request with their sanitized values (as the   *)
(* columns store them) and leaves every other field, the record's id and   *)
(* createdAt, and every other record unchanged.                             *)

\* the value a column holds for a sanitized value v of field f
ColumnValue(f, v) ==
  CASE f = "salary" -> ToDecimal2(ToNumber(v).n)
    [] f = "hireDate" -> IF v.k = "date" THEN v.n ELSE NewDate(v.s).n
    [] OTHER -> v.s

UpdateFrame(id, d, rows, rowsAfter) ==
  LET old == findById(rows, id)
      new == findById(rowsAfter, id)
  IN /\ new # NoRow
     /\ \A f \in FieldSet :
          new[f] = IF Present(f) /\ ~IsUndefined(d[f]) THEN ColumnValue(f, d[f]) ELSE old[f]
     /\ new.id = old.id
     /\ new.createdAt = old.createdAt
     /\ \A e \in rows : e.id # id => e \in rowsAfter
     /\ Cardinality(rowsAfter) = Cardinality(rows)

C18_UpdateReplacesPresentFields ==
  [][(phase \in {"update", "updateJs"} /\ phase' \in {"updated", "updatedJs"})
       => UpdateFrame(UpdatedId, dto, employees, employees')]_vars

----------------------------------------------------------------------------
(* C19: updateEmployee makes its checks in a fixed order and stops at the  *)
(* first failure: existence of the id (NotFound), then field validation,   *)
(* then the emptiness check ('No fields to update'), then the email        *)
(* lookup (Conflict); repository.update is called only after all of them   *)
(* passed.  An update of a non-existent id fails with NotFound whatever    *)
(* the body is.                                                             *)

C19_OnArrival(c) ==
  (Receives(c) /\ req'[c].op = "update") =>
    LET emp == findById(employees, req'[c].id)
        d == UpdateEmployeeRequestDto(req'[c].data)
        v == UpdateValidate(d)
        stopped == req'[c].pc = "done" /\ req'[c].calls = <<"findById">>
    IN /\ emp = NoRow => (stopped /\ resp'[c] = Fail(404, MsgNotFound))
       /\ (emp # NoRow /\ ~v.isValid) =>
            (stopped /\ resp'[c] = Fail(400, Join(v.errors)))
       /\ (emp # NoRow /\ v.isValid /\ isEmpty(d)) =>
            (stopped /\ resp'[c] = Fail(400, MsgNoFields))
       /\ (emp # NoRow /\ v.isValid /\ ~isEmpty(d)) => ~stopped

C19_CallsAfterChecks(c) ==
  (/\ req'[c] # req[c]
   /\ req'[c].op = "update"
   /\ Elems(req'[c].calls) \cap {"findByEmail", "update"} # {}) =>
    LET d == UpdateEmployeeRequestDto(req'[c].data)
        lookup == NeedsEmailLookup(d, req'[c].emp)
    IN /\ req'[c].emp # NoRow
       /\ UpdateValidate(d).isValid
       /\ ~isEmpty(d)
       /\ resp'[c].error = MsgConflict => req'[c].calls = <<"findById", "findByEmail">>
       /\ "update" \in Elems(req'[c].calls) =>
            req'[c].calls = IF lookup THEN <<"findById", "findByEmail", "update">>
                            ELSE <<"findById", "update">>

C19_UpdateCheckOrder ==
  [][\A c \in Clients : C19_OnArrival(c) /\ C19_CallsAfterChecks(c)]_vars

\* an update of a missing id with a body that also fails validation is
\* answered NotFound, while an update with an email to look up went through
\* findById, findByEmail and update
C19_Witness ==
  \E c1 \in Clients : \E c2 \in Clients :
    /\ Done(c1, "update")
    /\ req[c1].emp = NoRow
    /\ ~UpdateValidate(UpdateEmployeeRequestDto(req[c1].data)).isValid
    /\ resp[c1] = Fail(404, MsgNotFound)
    /\ Done(c2, "update")
    /\ req[c2].calls = <<"findById", "findByEmail", "update">>
    /\ resp[c2].success

----------------------------------------------------------------------------
(* C20: createEmployee validates before it touches the store: an invalid   *)
(* payload fails with the validation errors joined by ', ' and calls       *)
(* neither repository.findByEmail nor repository.create; repository.create *)
(* is called only after validation passed and findByEmail returned no      *)
(* record; every failed createEmployee leaves the store unchanged.          *)

\* the parts of a message between its commas
RECURSIVE Split(_)
Split(m) ==
  IF m = <<>> THEN <<>>
  ELSE IF \E i \in 1..Len(m) : m[i] = ","
  THEN LET i == CHOOSE k \in 1..Len(m) : m[k] = "," /\ \A j \in 1..(k - 1) : m[j] # ","
       IN <<SubSeq(m, 1, i - 1)>> \o Split(SubSeq(m, i + 1, Len(m)))
  ELSE <<m>>

C20_OnArrival(c) ==
  (Receives(c) /\ req'[c].op = "create") =>
    LET d == CreateEmployeeRequestDto(req'[c].data)
        v == CreateValidate(d)
        stored == \E e \in employees : e.email = d.email.s
    IN IF ~v.isValid
       THEN /\ req'[c].pc = "done"
            /\ req'[c].calls = <<>>
            /\ ~resp'[c].success
            /\ resp'[c].status = 400
            /\ Split(resp'[c].error) = v.errors
       ELSE IF stored
       THEN /\ req'[c].pc = "done"
            /\ req'[c].calls = <<"findByEmail">>
            /\ resp'[c] = Fail(400, MsgConflict)
       ELSE /\ req'[c].pc = "create"
            /\ req'[c].calls = <<"findByEmail">>

\* repository.create is called by a request that stands behind its lookup,
\* where C20_OnArrival lets only a valid payload with an unstored email stand
C20_CreateAfterChecks(c) ==
  (req'[c] # req[c] /\ req'[c].op = "create" /\ "create" \in Elems(req'[c].calls)) =>
    /\ req[c].pc = "create"
    /\ req[c].calls = <<"findByEmail">>
    /\ req'[c].calls = <<"findByEmail", "create">>

C20_FailureChangesNothing(c) ==
  (Finishes(c) /\ req'[c].op = "create" /\ ~resp'[c].success) => employees' = employees

C20_CreateValidatesFirst ==
  [][\A c \in Clients :
       /\ C20_OnArrival(c)
       /\ C20_CreateAfterChecks(c)
       /\ C20_FailureChangesNothing(c)]_vars

\* a create with two validation errors turned down while the store holds a
\* record with the email of the payload
C20_Witness ==
  \E c \in Clients :
    /\ Done(c, "create")
    /\ req[c].calls = <<>>
    /\ ~resp[c].success
    /\ Len(Split(resp[c].error)) = 2
    /\ \E e \in employees : e.email = Normalized(req[c].data.email)

----------------------------------------------------------------------------
(* C21: in every reachable state of the store, after any sequence of       *)
(* createEmployee and updateEmployee requests, every stored employee's     *)
(* salary is strictly greater than 0.                                       *)

C21_SalaryPositive == \A e \in employees : e.salary > 0

----------------------------------------------------------------------------
(* C22: in every reachable state every stored email is in normalized form  *)
(* (no leading or trailing whitespace, all lowercase), whether written by  *)
(* createEmployee or by updateEmployee, so the exact-match findByEmail on  *)
(* a normalized email finds every record whose email is equal to it up to  *)
(* case.                                                                    *)

\* the email texts the requests carry
RequestEmails ==
  {b.email : b \in {x \in CreateBodies \cup UpdateBodies : x.email.k = "str"}}

C22_StoredEmailsNormalized ==
  \A e \in employees :
    /\ e.email = Trim(e.email)
    /\ e.email = ToLowerCase(e.email)
    /\ \A v \in RequestEmails :
         ToLowerCase(Trim(v.s)) = ToLowerCase(e.email) =>
           findByEmail(employees, Normalized(v)) = e

\* a row whose email was written by an update that gave it in capitals, and a
\* row whose email was written by a create that gave it padded
C22_Witness ==
  /\ \E c \in Clients :
       /\ Done(c, "update") /\ resp[c].success
       /\ req[c].data.email = Str(Txt_email_AB)
       /\ \E e \in employees : e.id = req[c].id /\ e.email = ToLowerCase(Txt_email_AB)
  /\ \E c \in Clients :
       /\ Done(c, "create") /\ resp[c].success
       /\ req[c].data.email = Str(Txt_email_A_padded)

----------------------------------------------------------------------------
(* C23: a request for the employees of a department whose department is    *)
(* empty or absent fails with 'Department is required' without calling     *)
(* findByDepartment and is answered 400 with that message; with a          *)
(* non-empty department the answer is 200 and holds exactly the stored     *)
(* employees whose department equals the given string, each as its list    *)
(* projection.                                                              *)

InDepartment(rows, department) == {e \in rows : e.department = department}

C23_OnArrival(c) ==
  (Receives(c) /\ req'[c].op = "byDepartment") =>
    IF req'[c].param \in {Absent, Str(NoText)}
    THEN /\ req'[c].calls = <<>>
         /\ resp'[c] = Fail(400, MsgDepartmentRequired)
    ELSE /\ req'[c].calls = <<"findByDepartment">>
         /\ resp'[c].status = 200 /\ resp'[c].success
         /\ Elems(resp'[c].data) =
              {EmployeeListResponseDto(e) : e \in InDepartment(employees, req'[c].param.s)}
         /\ Len(resp'[c].data) = Cardinality(InDepartment(employees, req'[c].param.s))

C23_DepartmentListing == [][\A c \in Clients : C23_OnArrival(c)]_vars

\* one client was refused for an empty department, the other was given the
\* one employee of the department it named
C23_Witness ==
  \E c1 \in Clients : \E c2 \in Clients :
    /\ Done(c1, "byDepartment") /\ req[c1].param = Str(NoText) /\ resp[c1].status = 400
    /\ Done(c2, "byDepartment") /\ req[c2].param = Str(Txt_d)
    /\ Len(resp[c2].data) = 1
    /\ employees # {}

----------------------------------------------------------------------------
(* C24: after a successful deleteEmployee(id) no row with that id is       *)
(* present, a following getEmployeeById(id) fails with NotFound, and every *)
(* other row is unchanged.                                                  *)

Deleted(c) == Done(c, "delete") /\ resp[c].success

\* the step in which c's delete succeeds removes the row of its id and no other
C24_OnDelete(c) ==
  (Finishes(c) /\ req'[c].op = "delete" /\ resp'[c].success) =>
    /\ findById(employees, req'[c].id) # NoRow
    /\ employees' = {e \in employees : e.id # req'[c].id}

\* a getEmployeeById received after a delete of the same id succeeded
C24_GetAfterDelete(c) ==
  (/\ Receives(c) /\ req'[c].op = "getById"
   /\ \E o \in Clients : Deleted(o) /\ req[o].id = req'[c].id) =>
    resp'[c] = Fail(404, MsgNotFound)

C24_Gone == \A c \in Clients : Deleted(c) => findById(employees, req[c].id) = NoRow

C24_DeleteRemovesOnlyItsRow ==
  /\ []C24_Gone
  /\ [][\A c \in Clients : C24_OnDelete(c) /\ C24_GetAfterDelete(c)]_vars

\* a delete has succeeded and the store still holds another employee
C24_Witness ==
  \E c \in Clients :
    /\ Deleted(c)
    /\ \E e \in employees : e.id # req[c].id

----------------------------------------------------------------------------
(* C25: every controller operation emits exactly one response per request; *)
(* its success flag is true exactly when the status is 200 or 201; 201 is   *)
(* emitted only by a successful create; a success response carries data    *)
(* (for delete, a message) and no error; a failure response carries error  *)
(* and no data.                                                             *)

\* the response of a finished request of operation op
C25_Envelope(op, r) ==
  /\ r.success <=> r.status \in {200, 201}
  /\ r.status = 201 => (op = "create" /\ r.success)
  /\ (op = "create" /\ r.success) => r.status = 201
  /\ r.success =>
       /\ r.error = NoMsg
       /\ IF op = "delete"
          THEN r.kind = "message" /\ r.message = MsgDeleted /\ r.data = <<>>
          ELSE r.kind \in {"object", "array"} /\ r.message = NoMsg
       /\ r.kind = "object" => Len(r.data) = 1
  /\ ~r.success =>
       /\ r.kind = "error" /\ r.error # NoMsg
       /\ r.data = <<>> /\ r.message = NoMsg

C25_Answered ==
  \A c \in Clients :
    /\ req[c].pc = "done" => C25_Envelope(req[c].op, resp[c])
    /\ req[c].pc # "done" => resp[c] = NoResp

\* a client's response is written by the step that finishes its request and
\* by no other step
C25_WrittenOnce(c) ==
  /\ (Finishes(c) /\ req[c].pc # "done") => resp[c] = NoResp /\ resp'[c] # NoResp
  /\ (req[c].pc = "done" /\ ~Receives(c)) => resp'[c] = resp[c]
  /\ last' # c => resp'[c] = resp[c]

C25_OneResponsePerRequest ==
  /\ []C25_Answered
  /\ [][\A c \in Clients : C25_WrittenOnce(c)]_vars

\* a create answered 201 beside a failure answered with an error
C25_Witness ==
  \E c1 \in Clients : \E c2 \in Clients :
    /\ Done(c1, "create") /\ resp[c1].status = 201
    /\ req[c2].pc = "done" /\ ~resp[c2].success /\ resp[c2].status \in {400, 404}

----------------------------------------------------------------------------
(* C26: in every reachable state, after any sequence of creates and        *)
(* updates (updates that set name, email, position or department to an     *)
(* empty or whitespace-only string included), every stored employee has a  *)
(* non-empty name, email, position and department, and its email matches   *)
(* the email format.                                                        *)

C26_RequiredFieldsKept ==
  \A e \in employees :
    /\ e.name # NoText
    /\ e.email # NoText
    /\ e.position # NoText
    /\ e.department # NoText
    /\ isValidEmail(e.email)

----------------------------------------------------------------------------
(* C27: whenever updateEmployee has invoked repository.update, the update  *)
(* payload the repository built from the DTO holds at least one field; a   *)
(* body whose only recognized fields are null never reaches the            *)
(* persistence update with an empty payload.                                *)

C27_UpdatePayloadNotEmpty ==
  \A c \in Clients :
    (req[c].op = "update" /\ "update" \in Elems(req[c].calls)) =>
      UpdateDataFields(UpdateEmployeeRequestDto(req[c].data)) # {}

----------------------------------------------------------------------------
(* C28: deleteEmployee and updateEmployee issue their persistence write    *)
(* only while a row with the request's id is present; a request whose row  *)
(* was removed by a concurrent delete between its findById and its write   *)
(* ends with NotFound (404 'Employee not found') and not with an error of  *)
(* the persistence layer.                                                   *)

\* c's request has passed its checks and its write is its next step
AwaitsWrite(c) == req[c].pc \in {"update", "delete"}

C28_WriteOnlyOnPresentRow(c) ==
  (AwaitsWrite(c) /\ last' = c /\ req'[c] # req[c]) =>
    /\ (Len(req'[c].calls) > Len(req[c].calls)
         /\ req'[c].calls[Len(req'[c].calls)] \in {"update", "delete"}) =>
         findById(employees, req[c].id) # NoRow
    /\ (findById(employees, req[c].id) = NoRow /\ req'[c].pc = "done") =>
         resp'[c] = Fail(404, MsgNotFound)

C28_RemovedRowIsNotFound == [][\A c \in Clients : C28_WriteOnlyOnPresentRow(c)]_vars

----------------------------------------------------------------------------
(* C29: the read operations (all employees, one employee by id, the        *)
(* employees of a department) and every create, update or delete that ends *)
(* with NotFound, a validation error or Conflict leave the stored records, *)
(* with all their fields, unchanged.                                        *)

ReadOps == {"getAll", "getById", "byDepartment"}
WriteOps == {"create", "update", "delete"}

C29_StepOf(c) ==
  last' = c =>
    /\ req'[c].op \in ReadOps => employees' = employees
    /\ (req'[c].pc = "done" /\ ~resp'[c].success) => employees' = employees
    /\ employees' # employees =>
         /\ req[c].op = req'[c].op /\ req'[c].op \in WriteOps
         /\ req[c].pc # "done" /\ req'[c].pc = "done"
         /\ resp'[c].success

C29_OnlySuccessfulWritesChangeRows == [][\A c \in Clients : C29_StepOf(c)]_vars

\* beside a stored employee, one client's update was refused by validation
\* and the other client has read an employee
C29_Witness ==
  \E c1 \in Clients : \E c2 \in Clients :
    /\ Done(c1, "update") /\ resp[c1].status = 400
    /\ MsgSalaryPositive \in Elems(Split(resp[c1].error))
    /\ Done(c2, "getById") /\ resp[c2].success
    /\ employees # {}

----------------------------------------------------------------------------
(* C30: sanitization is idempotent and validation is pure: a                *)
(* CreateEmployeeRequestDto or UpdateEmployeeRequestDto built from the      *)
(* fields of an already sanitized request has the same field values and    *)
(* the same set of present fields, and validate(), called any number of    *)
(* times, does not change the request's fields and always returns the same *)
(* verdict and error list.                                                  *)

\* the fields present on a DTO: its own properties
OwnFields(d) == {f \in FieldSet : d[f].k # "absent"}

\* what reading a field gives: a missing property reads as undefined
ReadOf(v) == IF v.k = "absent" THEN Undef ELSE v

C30_Rebuilt ==
  (phase \in {"create", "update"} /\ phase' \in {"createAgain", "updateAgain"}) =>
    /\ \A f \in FieldSet : ReadOf(dto'[f]) = ReadOf(dto[f])
    /\ OwnFields(dto') = OwnFields(dto)

C30_Validated ==
  (phase' = phase /\ verdict'.done) =>
    /\ dto' = dto
    /\ verdict.done =>
         /\ verdict'.isValid = verdict.isValid
         /\ verdict'.errors = verdict.errors

C30_SanitizeIdempotentValidatePure == [][C30_Rebuilt /\ C30_Validated]_vars

====
